---- MODULE Spec2Model ----
(***************************************************************************)
(* State engine of the vigilix terminal dashboard (internal/ui/ui.go) and  *)
(* the log streaming collaborator (systemd.StreamLogs).                    *)
(*                                                                         *)
(* The Controller is model.Update: one action per branch of its switch.   *)
(* Background work is what tea.Cmd values do once the runtime runs them:   *)
(* one-shot commands (fetchUnits, fetchStats, fetchConfig, performAction)  *)
(* sit in `pending` until their result is folded; waitForLogLine commands  *)
(* sit in `waiters` (per channel) until a StreamLogs goroutine hands them  *)
(* a line over the unbuffered channel, and the resulting logLineMsg sits   *)
(* in `msgs` until the event loop folds it.  The runtime runs every        *)
(* command in its own goroutine, so `pending` and `msgs` are bags: results *)
(* arrive in any order.                                                    *)
(*                                                                         *)
(* The spinner.TickMsg case writes only the spinner frame, which is no part *)
(* of the state here; the commands the list and the viewport return are    *)
(* the library's own.  The widths of View and of the row delegate are      *)
(* operators over the sizes the tea.WindowSizeMsg case stores.             *)
(*                                                                         *)
(* The whole program is Spec.  Its state space is the product of several   *)
(* independent concerns, so each property is checked under the             *)
(* specification of its concern: the same actions, a part of the inputs.   *)
(*                                                                         *)
(* Strings that the code inspects character by character (unit names, for  *)
(* strings.ToLower and strings.Contains) are tuples of one-character       *)
(* strings; "" is << >>.  A log line is a record carrying the stream that  *)
(* emitted it, its position in that stream and whether its text is empty.  *)
(***************************************************************************)
EXTENDS Bags, FiniteSets, Integers, Sequences, TLC

\* ---------------------------------------------------------------- bounds
MaxLines == 1           \* lines one stream emits (SpecSub, Spec)
MaxWaiters == 2         \* waitForLogLine commands issued (SpecSub, Spec)
MaxStreamLines == 2     \* the same two for SpecStream
MaxStreamWaiters == 2
MaxEffectLines == 1     \* the same two for SpecEffects
MaxEffectWaiters == 1
MaxPending == 2         \* one-shot commands in flight when a key issues one
ScriptLen == 1200       \* lines of the scripted stream (SpecBuf)
ScriptEvery == 7        \* every ScriptEvery-th scripted line is empty
MaxLiveLines == 2       \* the same two for SpecLive
MaxLiveWaiters == 1
MaxWidth == 60          \* terminal sizes of tea.WindowSizeMsg (SpecLayout)
MaxHeight == 2

\* ------------------------------------------------------ program constants
LogCap == 1000

PaneList == 0
PaneContent == 1

ModeDashboard == 0
ModeList == 1
ModeLogs == 2
ModeConfig == 3

\* ------------------------------------------------------------ unit names
NameWeb == <<"w", "e", "b">>
NameTmp == <<"t", "m", "p">>
NameGo == <<"G", "o">>
Names == {NameWeb, NameTmp, NameGo}

DescWeb == <<"W", "e", "b", " ", "s", "i", "t", "e">>
DescTmp == <<"T", "m", "p">>
DescGo == << >>

Unit(name, active, description) ==
    [Name |-> name, ActiveState |-> active, Description |-> description]

\* Results systemd.ListUnits can return (parseUnits yields nil on empty output).
Snapshots ==
    { << >>,
      <<Unit(NameWeb, "active", DescWeb), Unit(NameTmp, "active", DescTmp)>>,
      <<Unit(NameTmp, "inactive", DescTmp), Unit(NameGo, "active", DescGo),
        Unit(NameWeb, "failed", DescWeb)>> }

Errors == {"exit status 1"}

\* --------------------------------------------------- strings.ToLower etc.
LowerChar(c) ==
    CASE c = "G" -> "g"
      [] c = "W" -> "w"
      [] c = "T" -> "t"
      [] OTHER -> c

ToLower(s) == [k \in 1..Len(s) |-> LowerChar(s[k])]

Contains(s, sub) ==
    \E k \in 0..(Len(s) - Len(sub)) : SubSeq(s, k + 1, k + Len(sub)) = sub

keywords ==
    << <<"d","o","c","k","e","r">>, <<"m","o","n","g","o">>,
       <<"p","o","s","t","g","r","e","s">>, <<"m","y","s","q","l">>,
       <<"r","e","d","i","s">>, <<"n","g","i","n","x">>,
       <<"a","p","a","c","h","e">>, <<"n","o","d","e">>,
       <<"p","y","t","h","o","n">>, <<"g","o">>, <<"j","a","v","a">>,
       <<"p","h","p">>, <<"r","u","b","y">>, <<"r","u","s","t">>,
       <<"a","p","p">>, <<"a","p","i">>,
       <<"s","e","r","v","i","c","e">>, <<"w","e","b">>,
       <<"w","o","r","k","e","r">>, <<"d","b">> >>

\* The inner loop of updateListItems: the first keyword contained in the
\* lower-cased name sets isDev.
isDev(unitName) ==
    LET name == ToLower(unitName)
    IN  \E k \in 1..Len(keywords) : Contains(name, keywords[k])

RECURSIVE FilterLoop(_, _, _)
FilterLoop(units, dev, filtered) ==
    IF units = << >> THEN filtered
    ELSE LET unit == Head(units)
         IN  FilterLoop(Tail(units), dev,
                        IF dev
                        THEN (IF isDev(unit.Name) THEN Append(filtered, unit)
                              ELSE filtered)
                        ELSE Append(filtered, unit))

\* updateListItems filtering by keyword whatever m.devMode says.
updateListItems_IgnoreToggle(units, dev) == FilterLoop(units, TRUE, << >>)

\* model.updateListItems: the items handed to m.list.SetItems.
updateListItems(units, dev) == FilterLoop(units, dev, << >>)


\* ------------------------------------------------------------------ state
VARIABLES
    viewMode,       \* model.viewMode
    activePane,     \* model.activePane
    devMode,        \* model.devMode
    allUnits,       \* model.allUnits
    listItems,      \* items of model.list (set by list.SetItems)
    listIndex,      \* cursor of model.list, 0-based as list.Index()
    settingFilter,  \* model.list.SettingFilter()
    logLines,       \* model.logLines
    configContent,  \* model.configContent
    streamingUnit,  \* model.streamingUnit
    stats,          \* model.stats
    logCancel,      \* model.logCtx / model.logCancel: id of the scope, 0 = nil
    logChan,        \* model.logChan: id of the channel, 0 = nil
    statusMessage,  \* model.statusMessage
    vpContent,      \* what model.viewport.SetContent last received
    quitting,       \* tea.Quit has been returned
    subs,           \* per created subscription: its scope and StreamLogs goroutine
    waiters,        \* waitForLogLine commands blocked on each channel
    msgs,           \* logLineMsg values on their way to the event loop
    pending,        \* one-shot commands issued, result not yet folded
    width,          \* model.width
    height,         \* model.height
    listWidth,      \* model.list.Width(), set by list.SetSize
    listHeight,     \* model.list.Height()
    viewportWidth,  \* model.viewport.Width
    viewportHeight, \* model.viewport.Height
    toggles,        \* history: (devMode, listItems) before each of the latest
                    \* consecutive dev-filter toggles, at most two
    configAsked     \* history: the unit of the latest fetchConfig issued

vars == <<viewMode, activePane, devMode, allUnits, listItems, listIndex,
          settingFilter, logLines, configContent, streamingUnit, stats,
          logCancel, logChan, statusMessage, vpContent, quitting,
          subs, waiters, msgs, pending, width, height, listWidth, listHeight,
          viewportWidth, viewportHeight, toggles, configAsked>>

layoutVars == <<width, height, listWidth, listHeight, viewportWidth,
                viewportHeight>>

SubIds == 1..Len(subs)

Line(src, n, empty) == [src |-> src, n |-> n, empty |-> empty]

\* strings.Join(lines, "\n") as the viewport receives it.
JoinLines(lines) == IF lines = << >> THEN << >> ELSE <<"lines", lines>>

Cmd(cmd, name, action) == [cmd |-> cmd, name |-> name, action |-> action]
fetchUnitsCmd == Cmd("fetchUnits", << >>, "")
fetchStatsCmd == Cmd("fetchStats", << >>, "")
fetchConfigCmd(name) == Cmd("fetchConfig", name, "")
performActionCmd(name, actionName) == Cmd("performAction", name, actionName)

Issue(bag, cmd) == bag (+) SetToBag({cmd})
Retire(bag, cmd) == bag (-) SetToBag({cmd})

InFlight == BagCardinality(pending)

\* list.SelectedItem(): nil (here << >>) when the cursor is outside the items.
HasSelection == listIndex < Len(listItems)
SelectedName == listItems[listIndex + 1].Name

\* NewModel and model.Init: Init's batch issues fetchUnits and fetchStats.
Init ==
    /\ viewMode = ModeDashboard
    /\ activePane = PaneList
    /\ devMode = TRUE
    /\ allUnits = << >>
    /\ listItems = << >>
    /\ listIndex = 0
    /\ settingFilter = FALSE
    /\ logLines = << >>
    /\ configContent = << >>
    /\ streamingUnit = << >>
    /\ stats = [hostname |-> "", os |-> ""]
    /\ logCancel = 0
    /\ logChan = 0
    /\ statusMessage = "Ready"
    /\ vpContent = << >>
    /\ quitting = FALSE
    /\ subs = << >>
    /\ waiters = << >>
    /\ msgs = EmptyBag
    /\ pending = SetToBag({fetchUnitsCmd, fetchStatsCmd})
    /\ width = 0
    /\ height = 0
    /\ listWidth = 0
    /\ listHeight = 0
    /\ viewportWidth = 0
    /\ viewportHeight = 0
    /\ toggles = << >>
    /\ configAsked = << >>


\* ------------------------------------------------------------------- keys
QuitKeys == {"q", "ctrl+c"}
AdvanceKeys == {"enter", "space", "tab", "l", "right"}
\* The keys pressed.  "l" and "right" page the list outside the dashboard and
\* are left out; every other key the handlers name is here.
Keys == {"q", "ctrl+c", "enter", "space", "tab", "d", "c", "s", "x", "r",
         "esc", "up", "down", "/"}

ActionName(k) ==
    CASE k = "s" -> "Started"
      [] k = "x" -> "Stopped"
      [] k = "r" -> "Restarted"

\* m.list.Update(msg): the cursor and the filter-entry state after key k.
ListKey(k) ==
    IF settingFilter
    THEN [index |-> listIndex, filtering |-> k \notin {"esc", "enter"}]
    ELSE CASE k = "up" ->
                [index |-> IF listIndex > 0 THEN listIndex - 1 ELSE 0,
                 filtering |-> FALSE]
           [] k = "down" ->
                [index |-> IF listIndex + 1 < Len(listItems)
                           THEN listIndex + 1 ELSE listIndex,
                 filtering |-> FALSE]
           [] k = "/" /\ listItems # << >> ->
                [index |-> 0, filtering |-> TRUE]
           [] OTHER -> [index |-> listIndex, filtering |-> FALSE]

\* ------------------------------------------------------ subscription parts
NoLine == Line(0, 0, TRUE)

NewSub(name) ==
    [unit |-> name, cancelled |-> FALSE, pc |-> "start", n |-> 0, cur |-> NoLine]

\* m.logCancel(): the scope is done from here on.
Cancel(ss, id) == [ss EXCEPT ![id].cancelled = TRUE]

\* startStreaming without the call of m.logCancel.
startStreaming_NoCancel(name) ==
    IF streamingUnit = name
    THEN UNCHANGED <<subs, logLines, streamingUnit, logCancel, logChan>>
    ELSE /\ subs' = Append(subs, NewSub(name))
         /\ logLines' = << >>
         /\ streamingUnit' = name
         /\ logCancel' = Len(subs) + 1
         /\ logChan' = Len(subs) + 1

\* startStreaming without the early return for the active unit.
startStreaming_AlwaysRestart(name) ==
    /\ subs' = Append(IF logCancel # 0 THEN Cancel(subs, logCancel) ELSE subs,
                      NewSub(name))
    /\ logLines' = << >>
    /\ streamingUnit' = name
    /\ logCancel' = Len(subs) + 1
    /\ logChan' = Len(subs) + 1

\* model.startStreaming.  The goroutine it starts is the new entry of subs.
startStreaming(name) ==
    IF streamingUnit = name
    THEN UNCHANGED <<subs, logLines, streamingUnit, logCancel, logChan>>
    ELSE /\ subs' = Append(IF logCancel # 0 THEN Cancel(subs, logCancel) ELSE subs,
                           NewSub(name))
         /\ logLines' = << >>
         /\ streamingUnit' = name
         /\ logCancel' = Len(subs) + 1
         /\ logChan' = Len(subs) + 1

\* waitForLogLine returning nil whatever the channel.
waitForLogLine_Nil(cs, chans, sub) ==
    [c \in 1..chans |-> IF c <= Len(cs) THEN cs[c] ELSE 0]

\* waitForLogLine(sub) once the runtime runs it: blocked on sub, or returned
\* nil at once when sub is nil.  cs counts the blocked commands per channel;
\* `chans` is the number of channels made so far.
waitForLogLine(cs, chans, sub) ==
    [c \in 1..chans |->
        (IF c <= Len(cs) THEN cs[c] ELSE 0) + (IF c = sub THEN 1 ELSE 0)]

Outstanding == BagCardinality(msgs) +
               (IF waiters = << >> THEN 0
                ELSE LET RECURSIVE Sum(_)
                         Sum(k) == IF k = 0 THEN 0 ELSE waiters[k] + Sum(k - 1)
                     IN  Sum(Len(waiters)))

\* The cap keeping the first LogCap lines instead of the last.
AppendLine_KeepOldest(lines, line) ==
    IF line.empty THEN lines
    ELSE LET appended == Append(lines, line)
         IN  IF Len(appended) > LogCap
             THEN SubSeq(appended, 1, LogCap)
             ELSE appended

\* The logLineMsg case of Update: the buffer after one message.
AppendLine(lines, line) ==
    IF line.empty THEN lines
    ELSE LET appended == Append(lines, line)
         IN  IF Len(appended) > LogCap
             THEN SubSeq(appended, Len(appended) - LogCap + 1, Len(appended))
             ELSE appended


\* --------------------------------------------------- Update: key handling
listVars == <<allUnits, listItems, listIndex, settingFilter>>
logVars == <<logLines, streamingUnit, logCancel, logChan, subs, waiters, msgs>>
textVars == <<configContent, stats, statusMessage, vpContent>>

\* Quit without the call of m.logCancel.
KeyQuit_NoCancel ==
    /\ ~quitting
    /\ \E k \in QuitKeys \cap Keys :
        /\ subs' = subs
        /\ quitting' = TRUE
        /\ toggles' = << >>
    /\ UNCHANGED <<viewMode, activePane, devMode, listVars, logLines,
                   streamingUnit, logCancel, logChan, waiters, msgs, textVars,
                   pending>>
    /\ UNCHANGED layoutVars
    /\ UNCHANGED configAsked

\* Global quit: cancel the active scope, return tea.Quit.
KeyQuit ==
    /\ ~quitting
    /\ \E k \in QuitKeys \cap Keys :
        /\ subs' = IF logCancel # 0 THEN Cancel(subs, logCancel) ELSE subs
        /\ quitting' = TRUE
        /\ toggles' = << >>
    /\ UNCHANGED <<viewMode, activePane, devMode, listVars, logLines,
                   streamingUnit, logCancel, logChan, waiters, msgs, textVars,
                   pending>>
    /\ UNCHANGED layoutVars
    /\ UNCHANGED configAsked

\* The dashboard opening the list on whatever key is pressed.
KeyDashboardKey_AdvanceOnAny(k) ==
    /\ ~quitting
    /\ viewMode = ModeDashboard
    /\ viewMode' = ModeList /\ activePane' = PaneList
    /\ toggles' = << >>
    /\ UNCHANGED <<devMode, listVars, logVars, textVars, quitting, pending>>
    /\ UNCHANGED layoutVars
    /\ UNCHANGED configAsked

\* Dashboard interaction: the advance keys open the list, the rest is dropped.
KeyDashboardKey(k) ==
    /\ ~quitting
    /\ viewMode = ModeDashboard
    /\ IF k \in AdvanceKeys
       THEN viewMode' = ModeList /\ activePane' = PaneList
       ELSE UNCHANGED <<viewMode, activePane>>
    /\ toggles' = << >>
    /\ UNCHANGED <<devMode, listVars, logVars, textVars, quitting, pending>>
    /\ UNCHANGED layoutVars
    /\ UNCHANGED configAsked

KeyDashboard == \E k \in Keys \ QuitKeys : KeyDashboardKey(k)

\* Tab going back to the plain list view when it leaves the content pane.
KeyTab_ResetsView ==
    /\ ~quitting
    /\ viewMode # ModeDashboard
    /\ activePane' = IF activePane = PaneList THEN PaneContent ELSE PaneList
    /\ viewMode' = IF activePane = PaneContent THEN ModeList ELSE viewMode
    /\ toggles' = << >>
    /\ UNCHANGED <<devMode, listVars, logVars, textVars, quitting, pending>>
    /\ UNCHANGED layoutVars
    /\ UNCHANGED configAsked

\* Global tab navigation.
KeyTab ==
    /\ ~quitting
    /\ viewMode # ModeDashboard
    /\ activePane' = IF activePane = PaneList THEN PaneContent ELSE PaneList
    /\ toggles' = << >>
    /\ UNCHANGED <<viewMode, devMode, listVars, logVars, textVars, quitting,
                   pending>>
    /\ UNCHANGED layoutVars
    /\ UNCHANGED configAsked

BoolText(b) == IF b THEN "true" ELSE "false"

\* The toggle switching the filter off instead of flipping it.
KeyToggleDev_SetOff ==
    /\ ~quitting
    /\ viewMode # ModeDashboard
    /\ devMode' = FALSE
    /\ listItems' = updateListItems(allUnits, devMode')
    /\ statusMessage' = "Dev Mode: " \o BoolText(devMode')
    /\ toggles' = (IF Len(toggles) = 2 THEN Tail(toggles) ELSE toggles)
                    \o << [devMode |-> devMode, listItems |-> listItems] >>
    /\ UNCHANGED <<viewMode, activePane, allUnits, listIndex, settingFilter,
                   logVars, configContent, stats, vpContent, quitting, pending>>
    /\ UNCHANGED layoutVars
    /\ UNCHANGED configAsked

\* Filter toggle (d).
KeyToggleDev ==
    /\ ~quitting
    /\ viewMode # ModeDashboard
    /\ devMode' = ~devMode
    /\ listItems' = updateListItems(allUnits, devMode')
    /\ statusMessage' = "Dev Mode: " \o BoolText(devMode')
    /\ toggles' = (IF Len(toggles) = 2 THEN Tail(toggles) ELSE toggles)
                    \o << [devMode |-> devMode, listItems |-> listItems] >>
    /\ UNCHANGED <<viewMode, activePane, allUnits, listIndex, settingFilter,
                   logVars, configContent, stats, vpContent, quitting, pending>>
    /\ UNCHANGED layoutVars
    /\ UNCHANGED configAsked

GlobalKeys == QuitKeys \cup {"tab", "d"}

\* While the list's filter entry is open the list takes the key.
KeyFiltering ==
    /\ ~quitting
    /\ viewMode # ModeDashboard
    /\ activePane = PaneList /\ settingFilter
    /\ \E k \in Keys \ GlobalKeys :
        /\ listIndex' = ListKey(k).index
        /\ settingFilter' = ListKey(k).filtering
    /\ toggles' = << >>
    /\ UNCHANGED <<viewMode, activePane, devMode, allUnits, listItems, logVars,
                   textVars, quitting, pending>>
    /\ UNCHANGED layoutVars
    /\ UNCHANGED configAsked

\* Enter in the list pane: view logs of the selected unit.
KeyEnter(maxWaiters) ==
    /\ ~quitting
    /\ viewMode # ModeDashboard
    /\ activePane = PaneList /\ ~settingFilter
    /\ viewMode' = ModeLogs
    /\ activePane' = PaneContent
    /\ IF HasSelection
       THEN /\ Outstanding < maxWaiters
            /\ startStreaming(SelectedName)
            /\ waiters' = waitForLogLine(waiters, Len(subs'), logChan')
       ELSE UNCHANGED <<subs, logLines, streamingUnit, logCancel, logChan,
                        waiters>>
    /\ listIndex' = ListKey("enter").index
    /\ settingFilter' = ListKey("enter").filtering
    /\ toggles' = << >>
    /\ UNCHANGED <<devMode, allUnits, listItems, msgs, textVars, quitting,
                   pending>>
    /\ UNCHANGED layoutVars
    /\ UNCHANGED configAsked

\* c in the list pane: view the unit file of the selected unit.
KeyConfig ==
    /\ ~quitting
    /\ viewMode # ModeDashboard
    /\ activePane = PaneList /\ ~settingFilter
    /\ viewMode' = ModeConfig
    /\ activePane' = PaneContent
    /\ IF HasSelection
       THEN /\ InFlight < MaxPending
            /\ pending' = Issue(pending, fetchConfigCmd(SelectedName))
            /\ configAsked' = SelectedName
       ELSE UNCHANGED <<pending, configAsked>>
    /\ listIndex' = ListKey("c").index
    /\ settingFilter' = ListKey("c").filtering
    /\ toggles' = << >>
    /\ UNCHANGED <<devMode, allUnits, listItems, logVars, textVars, quitting>>
    /\ UNCHANGED layoutVars

\* s / x / r in the list pane: start, stop or restart the selected unit.
KeyControl ==
    /\ ~quitting
    /\ viewMode # ModeDashboard
    /\ activePane = PaneList /\ ~settingFilter
    /\ \E k \in {"s", "x", "r"} :
        /\ IF HasSelection
           THEN /\ InFlight < MaxPending
                /\ pending' = Issue(pending,
                                    performActionCmd(SelectedName, ActionName(k)))
           ELSE UNCHANGED pending
        /\ listIndex' = ListKey(k).index
        /\ settingFilter' = ListKey(k).filtering
    /\ toggles' = << >>
    /\ UNCHANGED <<viewMode, activePane, devMode, allUnits, listItems, logVars,
                   textVars, quitting>>
    /\ UNCHANGED layoutVars
    /\ UNCHANGED configAsked

\* Any other key in the list pane goes to the list alone: the cursor keys ...
KeyListOther ==
    /\ ~quitting
    /\ viewMode # ModeDashboard
    /\ activePane = PaneList /\ ~settingFilter
    /\ \E k \in Keys \ (GlobalKeys \cup {"enter", "c", "s", "x", "r", "/"}) :
        /\ listIndex' = ListKey(k).index
        /\ settingFilter' = ListKey(k).filtering
    /\ toggles' = << >>
    /\ UNCHANGED <<viewMode, activePane, devMode, allUnits, listItems, logVars,
                   textVars, quitting, pending>>
    /\ UNCHANGED layoutVars
    /\ UNCHANGED configAsked

\* ... and "/", which opens the list's filter entry.
KeyFilterOpen ==
    /\ ~quitting
    /\ viewMode # ModeDashboard
    /\ activePane = PaneList /\ ~settingFilter
    /\ listIndex' = ListKey("/").index
    /\ settingFilter' = ListKey("/").filtering
    /\ toggles' = << >>
    /\ UNCHANGED <<viewMode, activePane, devMode, allUnits, listItems, logVars,
                   textVars, quitting, pending>>
    /\ UNCHANGED layoutVars
    /\ UNCHANGED configAsked

\* Esc in the content pane also leaving the log or config view.
KeyEsc_LeaveView ==
    /\ ~quitting
    /\ viewMode # ModeDashboard
    /\ activePane = PaneContent
    /\ activePane' = PaneList
    /\ viewMode' = ModeList
    /\ toggles' = << >>
    /\ UNCHANGED <<devMode, listVars, logVars, textVars, quitting, pending>>
    /\ UNCHANGED layoutVars
    /\ UNCHANGED configAsked

\* Esc in the content pane: back to the list pane.
KeyEsc ==
    /\ ~quitting
    /\ viewMode # ModeDashboard
    /\ activePane = PaneContent
    /\ activePane' = PaneList
    /\ toggles' = << >>
    /\ UNCHANGED <<viewMode, devMode, listVars, logVars, textVars, quitting,
                   pending>>
    /\ UNCHANGED layoutVars
    /\ UNCHANGED configAsked

\* Any other key in the content pane scrolls the viewport.
KeyContentOther ==
    /\ ~quitting
    /\ viewMode # ModeDashboard
    /\ activePane = PaneContent
    /\ \E k \in Keys \ (GlobalKeys \cup {"esc"}) : toggles' = << >>
    /\ UNCHANGED <<viewMode, activePane, devMode, listVars, logVars, textVars,
                   quitting, pending>>
    /\ UNCHANGED layoutVars
    /\ UNCHANGED configAsked


\* ------------------------------------------- one-shot commands, run to a msg
NoErr == ""

\* fetchUnits: the units, or errMsg when systemd.ListUnits fails.
fetchUnits ==
    {[type |-> "units", units |-> u] : u \in Snapshots}
        \cup {[type |-> "errMsg", err |-> e] : e \in Errors}

\* fetchConfig(name): always a configMsg, the error folded into its text.
fetchConfig(name) ==
    {[type |-> "configMsg", text |-> <<"unit file", name>>]}
        \cup {[type |-> "configMsg", text |-> <<"Error reading config: ", e>>] :
                e \in Errors}

\* fetchStats: always a statsMsg, "Unknown" when host.Info fails.
fetchStats ==
    {[type |-> "statsMsg", hostname |-> "host", os |-> "linux"],
     [type |-> "statsMsg", hostname |-> "Unknown", os |-> "Unknown"]}

\* performAction(actionFunc, name, actionName).
performAction(name, actionName) ==
    {[type |-> "actionResultMsg", err |-> e, action |-> actionName] :
        e \in {NoErr} \cup Errors}

\* -------------------------------------------- Update: background results
\* case []systemd.Unit; an errMsg matches no case of the switch.
RecvUnitsMsg(msg) ==
    /\ ~quitting
    /\ BagIn(fetchUnitsCmd, pending)
    /\ IF msg.type = "units"
       THEN /\ allUnits' = msg.units
            /\ listItems' = updateListItems(msg.units, devMode)
       ELSE UNCHANGED <<allUnits, listItems>>
    /\ pending' = Retire(pending, fetchUnitsCmd)
    /\ toggles' = << >>
    /\ UNCHANGED <<viewMode, activePane, devMode, listIndex, settingFilter,
                   logVars, textVars, quitting>>
    /\ UNCHANGED layoutVars
    /\ UNCHANGED configAsked

RecvUnits == \E msg \in fetchUnits : RecvUnitsMsg(msg)

\* case statsMsg.
RecvStatsMsg(msg) ==
    /\ ~quitting
    /\ BagIn(fetchStatsCmd, pending)
    /\ stats' = [hostname |-> msg.hostname, os |-> msg.os]
    /\ pending' = Retire(pending, fetchStatsCmd)
    /\ toggles' = << >>
    /\ UNCHANGED <<viewMode, activePane, devMode, listVars, logVars,
                   configContent, statusMessage, vpContent, quitting>>
    /\ UNCHANGED layoutVars
    /\ UNCHANGED configAsked

RecvStats == \E msg \in fetchStats : RecvStatsMsg(msg)

\* case configMsg.
RecvConfigMsg(cmd, msg) ==
    /\ ~quitting
    /\ BagIn(cmd, pending)
    /\ cmd.cmd = "fetchConfig"
    /\ configContent' = msg.text
    /\ vpContent' = IF viewMode = ModeConfig THEN msg.text ELSE vpContent
    /\ pending' = Retire(pending, cmd)
    /\ toggles' = << >>
    /\ UNCHANGED <<viewMode, activePane, devMode, listVars, logVars, stats,
                   statusMessage, quitting>>
    /\ UNCHANGED layoutVars
    /\ UNCHANGED configAsked

RecvConfig ==
    \E cmd \in BagToSet(pending) :
        \E msg \in fetchConfig(cmd.name) : RecvConfigMsg(cmd, msg)

\* The fold fetching the units again after a failed action too.
foldActionResult_AlwaysRefetch(msg) ==
    IF msg.err # NoErr
    THEN [status |-> "Error: " \o msg.err, cmds |-> <<fetchUnitsCmd>>]
    ELSE [status |-> msg.action \o " unit.", cmds |-> <<fetchUnitsCmd>>]

\* case actionResultMsg: the status text and the commands it returns.
foldActionResult(msg) ==
    IF msg.err # NoErr
    THEN [status |-> "Error: " \o msg.err, cmds |-> << >>]
    ELSE [status |-> msg.action \o " unit.", cmds |-> <<fetchUnitsCmd>>]

RECURSIVE IssueAll(_, _)
IssueAll(bag, cmds) ==
    IF cmds = << >> THEN bag ELSE IssueAll(Issue(bag, Head(cmds)), Tail(cmds))

RecvActionResultMsg(cmd, msg) ==
    /\ ~quitting
    /\ BagIn(cmd, pending)
    /\ cmd.cmd = "performAction"
    /\ statusMessage' = foldActionResult(msg).status
    /\ pending' = IssueAll(Retire(pending, cmd), foldActionResult(msg).cmds)
    /\ toggles' = << >>
    /\ UNCHANGED <<viewMode, activePane, devMode, listVars, logVars,
                   configContent, stats, vpContent, quitting>>
    /\ UNCHANGED layoutVars
    /\ UNCHANGED configAsked

RecvActionResult ==
    \E cmd \in BagToSet(pending) :
        \E msg \in performAction(cmd.name, cmd.action) :
            RecvActionResultMsg(cmd, msg)

\* The logLineMsg case asking for the next line in the log view only.
FoldLogLineMsg_WaitOnlyInLogs(msg) ==
    /\ ~quitting
    /\ BagIn(msg, msgs)
    /\ msgs' = Retire(msgs, msg)
    /\ logLines' = AppendLine(logLines, msg)
    /\ vpContent' = IF ~msg.empty /\ viewMode = ModeLogs
                    THEN JoinLines(logLines') ELSE vpContent
    /\ waiters' = IF viewMode = ModeLogs
                  THEN waitForLogLine(waiters, Len(subs), logChan)
                  ELSE waiters
    /\ toggles' = << >>
    /\ UNCHANGED <<viewMode, activePane, devMode, listVars, streamingUnit,
                   logCancel, logChan, subs, configContent, stats,
                   statusMessage, quitting, pending>>
    /\ UNCHANGED layoutVars
    /\ UNCHANGED configAsked

\* case logLineMsg: append, cap, refresh the viewport in log mode, and wait
\* for the next line on the channel the model holds now.
FoldLogLineMsg(msg) ==
    /\ ~quitting
    /\ BagIn(msg, msgs)
    /\ msgs' = Retire(msgs, msg)
    /\ logLines' = AppendLine(logLines, msg)
    /\ vpContent' = IF ~msg.empty /\ viewMode = ModeLogs
                    THEN JoinLines(logLines') ELSE vpContent
    /\ waiters' = waitForLogLine(waiters, Len(subs), logChan)
    /\ toggles' = << >>
    /\ UNCHANGED <<viewMode, activePane, devMode, listVars, streamingUnit,
                   logCancel, logChan, subs, configContent, stats,
                   statusMessage, quitting, pending>>
    /\ UNCHANGED layoutVars
    /\ UNCHANGED configAsked

FoldLogLine == \E msg \in BagToSet(msgs) : FoldLogLineMsg(msg)

\* ------------------------------------------- systemd.StreamLogs goroutine
\* cmd.StdoutPipe / cmd.Start: the stream is acquired, or StreamLogs returns
\* the error (which the goroutine of startStreaming drops).
StreamStart(i) ==
    /\ ~quitting
    /\ subs[i].pc = "start"
    /\ \E ok \in BOOLEAN :
        subs' = [subs EXCEPT ![i].pc = IF ok THEN "scan" ELSE "failed"]
    /\ UNCHANGED <<viewMode, activePane, devMode, listVars, logLines,
                   streamingUnit, logCancel, logChan, waiters, msgs, textVars,
                   quitting, pending, toggles>>
    /\ UNCHANGED layoutVars
    /\ UNCHANGED configAsked

\* What scanner.Text() can be for line n of a stream: whether it is empty.
AnyText(n) == BOOLEAN
NonEmptyText(n) == {FALSE}
\* The scripted stream: every ScriptEvery-th line is empty.
ScriptText(n) == {n % ScriptEvery = 0}

Texts(kind, n) ==
    CASE kind = "any" -> AnyText(n)
      [] kind = "nonempty" -> NonEmptyText(n)
      [] kind = "script" -> ScriptText(n)

\* scanner.Scan(): the next line (at most maxLines of them, each with a text
\* of Texts(kind, n)), or the end of the output, after which cmd.Wait returns.
StreamScan(i, maxLines, kind) ==
    /\ ~quitting
    /\ subs[i].pc = "scan"
    /\ \/ /\ subs[i].n < maxLines
          /\ \E e \in Texts(kind, subs[i].n + 1) :
                subs' = [subs EXCEPT ![i].pc = "select",
                                     ![i].n = @ + 1,
                                     ![i].cur = Line(i, subs[i].n + 1, e)]
       \/ subs' = [subs EXCEPT ![i].pc = "ended"]
    /\ UNCHANGED <<viewMode, activePane, devMode, listVars, logLines,
                   streamingUnit, logCancel, logChan, waiters, msgs, textVars,
                   quitting, pending, toggles>>
    /\ UNCHANGED layoutVars
    /\ UNCHANGED configAsked

\* The select: return on a done scope, or hand the line to a blocked
\* waitForLogLine, which returns it as a logLineMsg.  Go picks either case
\* when both are ready.
StreamSelect(i) ==
    /\ ~quitting
    /\ subs[i].pc = "select"
    /\ \/ /\ subs[i].cancelled
          /\ subs' = [subs EXCEPT ![i].pc = "ended", ![i].cur = NoLine]
          /\ UNCHANGED <<waiters, msgs>>
       \/ /\ waiters[i] > 0
          /\ waiters' = [waiters EXCEPT ![i] = @ - 1]
          /\ msgs' = Issue(msgs, subs[i].cur)
          /\ subs' = [subs EXCEPT ![i].pc = "scan", ![i].cur = NoLine]
    /\ UNCHANGED <<viewMode, activePane, devMode, listVars, logLines,
                   streamingUnit, logCancel, logChan, textVars, quitting,
                   pending, toggles>>
    /\ UNCHANGED layoutVars
    /\ UNCHANGED configAsked

\* ------------------------------------------------------------------ layout
\* int(float64(x) * 0.35): the conversion truncates toward zero.  (Up to
\* x = 179 the float64 product truncates to the integer quotient below.)
Trunc035(x) == IF x >= 0 THEN (x * 35) \div 100 ELSE -((-x * 35) \div 100)

contentWidth(w) == w - 4
contentHeight(h) == h - 4
sidebarWidth(w) == Trunc035(contentWidth(w))
mainWidth(w) == contentWidth(w) - sidebarWidth(w)

\* case tea.WindowSizeMsg.
WindowSizeMsg(w, h) ==
    /\ ~quitting
    /\ width' = w
    /\ height' = h
    /\ listWidth' = sidebarWidth(w) - 2
    /\ listHeight' = contentHeight(h) - 4 - 2
    /\ viewportWidth' = mainWidth(w) - 2
    /\ viewportHeight' = contentHeight(h) - 4
    /\ toggles' = << >>
    /\ UNCHANGED <<viewMode, activePane, devMode, listVars, logVars, textVars,
                   quitting, pending, configAsked>>

WindowSize == \E w \in 0..MaxWidth, h \in 0..MaxHeight : WindowSizeMsg(w, h)

\* lipgloss.Width of a string kept as a tuple of bytes: the icon of a title
\* is four bytes showing as two cells.
IconBytes == <<"icon", "+", "+", "+">>

CellsOf(c) ==
    CASE c = "icon" -> 2
      [] c = "+" -> 0
      [] OTHER -> 1

RECURSIVE Width(_)
Width(str) == IF str = << >> THEN 0 ELSE CellsOf(Head(str)) + Width(Tail(str))

\* item.Title(): icon, blank, name.
Title(unit) == IconBytes \o <<" ">> \o unit.Name

\* strings.ToUpper(activeState) in cells.
StateWidth(activeState) ==
    CASE activeState = "active" -> 6
      [] activeState = "failed" -> 6
      [] activeState = "inactive" -> 8

\* The status badge: the upper-cased state with Padding(0, 1).
badgeWidth(unit) == StateWidth(unit.ActiveState) + 2

\* itemStyle.GetHorizontalFrameSize(): padding 1 and the left border when the
\* row is selected, padding 2 otherwise.
HorizontalFrameSize(isSelected) == IF isSelected THEN 1 + 1 ELSE 2

totalWidth(lw) == IF lw <= 0 THEN 40 ELSE lw

innerWidth(lw, isSelected) ==
    LET inner == totalWidth(lw) - HorizontalFrameSize(isSelected)
    IN  IF inner < 0 THEN 0 ELSE inner

availableTitleWidth(unit, lw, isSelected) ==
    innerWidth(lw, isSelected) - badgeWidth(unit) - 2

\* The truncation of Render: str[:available-3] + "..." cuts bytes.
Truncate(str, available) ==
    IF Width(str) > available
    THEN IF available > 3
         THEN SubSeq(str, 1, available - 3) \o <<".", ".", ".">>
         ELSE << >>
    ELSE str

titleStr(unit, lw, isSelected) ==
    Truncate(Title(unit), availableTitleWidth(unit, lw, isSelected))

descStr(unit, lw, isSelected) ==
    Truncate(unit.Description, innerWidth(lw, isSelected))

gapSize(unit, lw, isSelected) ==
    LET gap == innerWidth(lw, isSelected)
                 - Width(titleStr(unit, lw, isSelected)) - badgeWidth(unit)
    IN  IF gap < 0 THEN 0 ELSE gap

\* View: the header above the list.  "UNIT" with PaddingLeft(2) and "STATUS"
\* with PaddingRight(1) take 6 and 7 cells.
listContentWidth(w) == sidebarWidth(w) - 2

spacerWidth(w) ==
    LET spacer == listContentWidth(w) - 6 - 7
    IN  IF spacer < 0 THEN 0 ELSE spacer

\* View: the status at the right of the content header.
headerInfoWidth ==
    (IF HasSelection
     THEN 1 + badgeWidth(listItems[listIndex + 1]) + 1 ELSE 0)
    + (IF streamingUnit # << >> /\ viewMode = ModeLogs THEN 1 + 2 ELSE 0)

\* View: the separator line; the tabs " Logs " and " Config " with
\* Padding(0, 1) take 8 and 10 cells.
lineLen(w) ==
    LET len == mainWidth(w) - 8 - 10 - headerInfoWidth - 4
    IN  IF len < 0 THEN 0 ELSE len

\* ---------------------------------------------------------- specifications
\* Moving around: the dashboard, the panes, the list cursor, the viewport.
Browse ==
    \/ KeyDashboard
    \/ KeyTab
    \/ KeyListOther
    \/ KeyEsc
    \/ KeyContentOther

\* The list's filter entry.
FilterEntry ==
    \/ KeyFilterOpen
    \/ KeyFiltering

Streams(maxLines, kind) ==
    \E i \in SubIds :
        \/ StreamStart(i)
        \/ StreamScan(i, maxLines, kind)
        \/ StreamSelect(i)

\* The whole program.
Next ==
    \/ KeyQuit
    \/ Browse
    \/ FilterEntry
    \/ KeyToggleDev
    \/ KeyEnter(MaxWaiters)
    \/ KeyConfig
    \/ KeyControl
    \/ RecvUnits
    \/ RecvStats
    \/ RecvConfig
    \/ RecvActionResult
    \/ FoldLogLine
    \/ Streams(MaxLines, "any")
    \/ WindowSize

Spec == Init /\ [][Next]_vars

\* The log subscription: the user browses the list, views logs and quits;
\* the dev filter, the unit files and the control actions are left untouched.
NextSub ==
    \/ KeyQuit
    \/ Browse
    \/ KeyEnter(MaxWaiters)
    \/ RecvUnits
    \/ FoldLogLine
    \/ Streams(MaxLines, "nonempty")

SpecSub == Init /\ [][NextSub]_vars

\* The same with longer streams and empty lines.
NextStream ==
    \/ KeyQuit
    \/ Browse
    \/ KeyEnter(MaxStreamWaiters)
    \/ RecvUnits
    \/ FoldLogLine
    \/ Streams(MaxStreamLines, "any")

SpecStream == Init /\ [][NextStream]_vars

\* The unit list and the dev filter: control actions are what makes the
\* program fetch the units again.
NextFilter ==
    \/ KeyQuit
    \/ Browse
    \/ FilterEntry
    \/ KeyToggleDev
    \/ KeyControl
    \/ RecvUnits
    \/ RecvStats
    \/ RecvActionResult

SpecFilter == Init /\ [][NextFilter]_vars

\* Control actions while logs are viewed (the host statistics stay in flight).
NextControl ==
    \/ KeyDashboard
    \/ KeyTab
    \/ KeyEsc
    \/ KeyEnter(MaxEffectWaiters)
    \/ KeyControl
    \/ RecvUnits
    \/ RecvActionResult
    \/ FoldLogLine
    \/ Streams(MaxEffectLines, "nonempty")

SpecControl == Init /\ [][NextControl]_vars

\* The one-shot commands and the folding of their results.
NextEffects ==
    \/ KeyQuit
    \/ Browse
    \/ KeyConfig
    \/ KeyControl
    \/ RecvUnits
    \/ RecvStats
    \/ RecvConfig
    \/ RecvActionResult

SpecEffects == Init /\ [][NextEffects]_vars

\* The scripted stream: the units arrive, the user opens the list and asks
\* once for the logs of the first unit, and the stream runs to its end.
NextBuf ==
    \/ KeyDashboard
    \/ KeyEnter(MaxWaiters)
    \/ RecvUnits
    \/ FoldLogLine
    \/ Streams(ScriptLen, "script")

SpecBuf == Init /\ [][NextBuf]_vars

\* The panes: logs and the unit file of the first unit are viewed, the list
\* is filtered, the user quits.
NextPanes ==
    \/ KeyQuit
    \/ KeyDashboard
    \/ KeyTab
    \/ KeyEsc
    \/ FilterEntry
    \/ KeyEnter(MaxEffectWaiters)
    \/ KeyConfig
    \/ RecvUnits
    \/ RecvConfig
    \/ FoldLogLine
    \/ Streams(MaxEffectLines, "nonempty")

SpecPanes == Init /\ [][NextPanes]_vars

\* Streaming under fair scheduling: the Go scheduler runs every StreamLogs
\* goroutine that can take a step, and the runtime folds a logLineMsg that
\* has been delivered.  What the user does is under no fairness.
NextLive ==
    \/ KeyQuit
    \/ KeyDashboard
    \/ KeyTab
    \/ KeyEnter(MaxLiveWaiters)
    \/ KeyConfig
    \/ RecvUnits
    \/ RecvConfig
    \/ FoldLogLine
    \/ Streams(MaxLiveLines, "any")

Fairness ==
    /\ WF_vars(FoldLogLine)
    /\ \A i \in 1..MaxLiveWaiters :
        /\ WF_vars(i \in SubIds /\ StreamStart(i))
        /\ WF_vars(i \in SubIds /\ StreamScan(i, MaxLiveLines, "any"))
        /\ WF_vars(i \in SubIds /\ StreamSelect(i))

SpecLive == Init /\ [][NextLive]_vars /\ Fairness

\* The layout: the terminal is resized while the user browses the list.
NextLayout ==
    \/ WindowSize
    \/ Browse
    \/ RecvUnits

SpecLayout == Init /\ [][NextLayout]_vars

\* ------------------------------------------------------------------ claims

\* C1: after the subscription has been switched from one unit to another, no
\* line emitted by the earlier unit's stream is appended to logLines.  The
\* switch empties logLines, so every line found there has to come from the
\* stream of the subscription the model holds.
C1_NoLineOfSupersededStream ==
    \A k \in 1..Len(logLines) : logLines[k].src = logCancel

\* C2: at most one subscription has a scope that is not cancelled, it is the
\* newest one, and the model holds its cancel function and its channel.
C2_AtMostOneLiveSubscription ==
    /\ Cardinality({i \in SubIds : ~subs[i].cancelled}) <= 1
    /\ \A i \in SubIds : ~subs[i].cancelled => i = Len(subs)
    /\ logCancel = Len(subs)
    /\ logChan = Len(subs)

\* A second subscription has been started and the first one is cancelled.
C2_Witness ==
    /\ Len(subs) = 2
    /\ subs[1].cancelled
    /\ ~subs[2].cancelled
    /\ subs[1].unit # subs[2].unit

\* C3: view-logs for the unit that is already the active target leaves
\* logLines, the cancel function, the channel and every subscription (its
\* scope and its streaming task) as they are.
C3_SameTargetIsNoOp ==
    [][(KeyEnter(MaxWaiters) /\ HasSelection /\ SelectedName = streamingUnit)
        => UNCHANGED <<logLines, logCancel, logChan, streamingUnit, subs>>]_vars

\* View-logs was pressed again for the active unit after a line had arrived:
\* one subscription, its line still in logLines, two waits on its channel.
C3_Witness ==
    /\ Len(subs) = 1
    /\ logLines # << >>
    /\ waiters[1] = 2

\* C4: logLines never holds more than LogCap lines and is the last LogCap of
\* the lines appended (the non-empty lines folded so far), in that order.
Folded == subs[1].n - (IF subs[1].pc = "select" THEN 1 ELSE 0)
                    - BagCardinality(msgs)

AppendedSoFar ==
    SelectSeq([k \in 1..Folded |-> Line(1, k, k % ScriptEvery = 0)],
              LAMBDA l : ~l.empty)

C4_BoundedFifo ==
    /\ Len(logLines) <= LogCap
    /\ subs # << >> =>
        LET all == AppendedSoFar
            drop == IF Len(all) > LogCap THEN Len(all) - LogCap ELSE 0
        IN  logLines = SubSeq(all, drop + 1, Len(all))

\* More than LogCap lines were appended: the buffer is full and its first
\* line is no longer the first line of the stream.
C4_Witness ==
    /\ Len(logLines) = LogCap
    /\ logLines[1].n > 20

\* C5: the lines of one subscription are in logLines in the order the stream
\* emitted them.
C5_EmissionOrder ==
    \A j, k \in 1..Len(logLines) :
        (j < k /\ logLines[j].src = logLines[k].src)
            => logLines[j].n < logLines[k].n


\* C6: the list's items are the units of allUnits, in their order, that the
\* dev filter selects: all of them when it is off, those whose lower-cased
\* name contains a keyword when it is on.
C6_FilteredViewCurrent ==
    listItems = SelectSeq(allUnits, LAMBDA u : ~devMode \/ isDev(u.Name))

\* The filter was switched off after units arrived that it had hidden.
C6_Witness ==
    /\ ~devMode
    /\ Len(allUnits) = 3
    /\ Len(listItems) = 3
    /\ statusMessage = "Dev Mode: false"

\* C7: two dev-filter toggles in a row, with no other event folded between
\* them, give back the devMode and the list items from before the first.
C7_DoubleToggleIdentity ==
    Len(toggles) = 2 =>
        /\ devMode = toggles[1].devMode
        /\ listItems = toggles[1].listItems

\* Two toggles in a row over units of which the filter hides some.
C7_Witness ==
    /\ Len(toggles) = 2
    /\ allUnits # << >>
    /\ toggles[2].listItems # toggles[1].listItems

\* C8: folding an action result without error sets the success text and
\* issues exactly one fetchUnits; with an error it sets the error text and
\* issues nothing; viewMode, activePane, allUnits and logLines stay.
C8_ActionResultFold ==
    [][\A cmd \in BagToSet(pending) :
        \A msg \in performAction(cmd.name, cmd.action) :
            RecvActionResultMsg(cmd, msg) =>
                /\ UNCHANGED <<viewMode, activePane, allUnits, logLines>>
                /\ IF msg.err = NoErr
                   THEN /\ statusMessage' = msg.action \o " unit."
                        /\ pending' = Issue(Retire(pending, cmd), fetchUnitsCmd)
                   ELSE /\ statusMessage' = "Error: " \o msg.err
                        /\ pending' = Retire(pending, cmd)]_vars

\* A successful action was folded while a log line was in the buffer: the
\* units are being fetched again.
C8_Witness ==
    /\ statusMessage \in {"Started unit.", "Stopped unit.", "Restarted unit."}
    /\ BagIn(fetchUnitsCmd, pending)
    /\ logLines # << >>
    /\ viewMode = ModeLogs

\* C9: folding the event of a failed collaborator call (unit list, unit
\* file, host statistics, control action) leaves statusMessage reporting
\* the failure and keeps allUnits.
FailureTexts ==
    {"Error: " \o e : e \in Errors}
        \cup {"Error reading config: " \o e : e \in Errors}

IsFailure(msg) ==
    CASE msg.type = "errMsg" -> TRUE
      [] msg.type = "units" -> FALSE
      [] msg.type = "configMsg" -> msg.text[1] = "Error reading config: "
      [] msg.type = "statsMsg" -> msg.hostname = "Unknown"
      [] msg.type = "actionResultMsg" -> msg.err # NoErr

FoldOfFailure ==
    \/ \E msg \in fetchUnits : IsFailure(msg) /\ RecvUnitsMsg(msg)
    \/ \E msg \in fetchStats : IsFailure(msg) /\ RecvStatsMsg(msg)
    \/ \E cmd \in BagToSet(pending) :
        \E msg \in fetchConfig(cmd.name) :
            IsFailure(msg) /\ RecvConfigMsg(cmd, msg)
    \/ \E cmd \in BagToSet(pending) :
        \E msg \in performAction(cmd.name, cmd.action) :
            IsFailure(msg) /\ RecvActionResultMsg(cmd, msg)

C9_FailuresReported ==
    [][FoldOfFailure =>
        /\ statusMessage' \in FailureTexts
        /\ allUnits' = allUnits]_vars

\* C10: once the streaming task of a unit has returned, view-logs for that
\* unit starts a new streaming task; and a stream that could not be acquired
\* leaves streamingUnit unset.
StreamReturned(name) ==
    \E i \in SubIds :
        /\ subs[i].unit = name
        /\ subs[i].pc \in {"ended", "failed"}
        /\ \A j \in SubIds : subs[j].unit = name => j <= i

C10_RetryAfterStreamEnd ==
    [][/\ (KeyEnter(MaxStreamWaiters) /\ HasSelection
            /\ StreamReturned(SelectedName))
          => (/\ Len(subs') = Len(subs) + 1
              /\ subs'[Len(subs')].unit = SelectedName)
       /\ \A i \in SubIds :
            (subs[i].pc = "start" /\ subs'[i].pc = "failed" /\ logCancel = i)
                => streamingUnit' = << >>]_vars

\* C11: the program starts on the dashboard; there an advance key opens the
\* list with the list pane focused, and every other key but quit (tab, d,
\* c, s, x, r, esc, the cursor keys, /) changes neither viewMode, activePane,
\* devMode, the list items, logLines nor the subscription, and issues no
\* command.
DashboardFrame ==
    <<devMode, listItems, logLines, streamingUnit, logCancel, logChan, subs,
      waiters, msgs, pending>>

WaitCount(ws, c) == IF c <= Len(ws) THEN ws[c] ELSE 0

C13_EscFrame ==
    [][(KeyEsc /\ viewMode \in {ModeLogs, ModeConfig}) =>
            /\ activePane' = PaneList
            /\ UNCHANGED <<viewMode, logLines, configContent, streamingUnit,
                           logCancel, logChan, subs, devMode, allUnits,
                           waiters, msgs, pending>>]_vars

\* Back in the list pane of the log view with the subscription alive and a
\* line in the buffer.
C13_Witness ==
    /\ viewMode = ModeLogs
    /\ activePane = PaneList
    /\ logLines # << >>
    /\ logCancel # 0
    /\ ~subs[logCancel].cancelled
    /\ configContent # << >>

\* C14: folding a unit list replaces allUnits and keeps the selection by
\* name: a unit selected before the result and still among the list items
\* is the selected unit afterwards, wherever it now stands; otherwise the
\* cursor is on the first item.
C14_SelectionByName ==
    [][\A msg \in fetchUnits :
        (msg.type = "units" /\ RecvUnitsMsg(msg)) =>
            /\ allUnits' = msg.units
            /\ IF HasSelection
                  /\ \E k \in 1..Len(listItems') :
                        listItems'[k].Name = SelectedName
               THEN /\ listIndex' < Len(listItems')
                    /\ listItems'[listIndex' + 1].Name = SelectedName
               ELSE listIndex' = 0]_vars

\* C15: quit is taken in every state the program runs in (every viewMode,
\* either pane, during filter entry); it cancels the scope the model holds
\* and returns tea.Quit, and nothing else returns tea.Quit.
C15_QuitEverywhere ==
    /\ [](~quitting => ENABLED KeyQuit)
    /\ [][/\ KeyQuit =>
                /\ quitting'
                /\ (logCancel # 0 => subs'[logCancel].cancelled)
          /\ (quitting' # quitting) => KeyQuit]_vars

\* The user quit from the filter entry of the list while logs were streamed.
C15_Witness ==
    /\ quitting
    /\ settingFilter
    /\ viewMode = ModeLogs
    /\ logCancel # 0
    /\ subs[logCancel].cancelled
    /\ waiters[logCancel] > 0

\* C16: at most one waitForLogLine is outstanding at any time, so at most
\* one logLineMsg is on its way.
C16_OneWaitOutstanding ==
    /\ Outstanding - BagCardinality(msgs) <= 1
    /\ BagCardinality(msgs) <= 1

\* C17: folding a logLineMsg issues exactly one waitForLogLine, and on the
\* channel the folded line came from.
C17_ReissueOnSameChannel ==
    [][\A msg \in BagToSet(msgs) :
        FoldLogLineMsg(msg) =>
            \A c \in 1..Len(subs) :
                WaitCount(waiters', c) =
                    WaitCount(waiters, c) + (IF c = msg.src THEN 1 ELSE 0)]_vars

\* C18: while the subscription stays the one the model holds (no switch, no
\* quit), every non-empty line its stream emits is eventually in logLines,
\* whatever the view mode and the focused pane.
Emitted(i, n, empty) ==
    /\ i \in SubIds
    /\ logCancel = i
    /\ subs[i].pc = "select"
    /\ subs[i].cur = Line(i, n, empty)

Appended(i, n) ==
    \E k \in 1..Len(logLines) : logLines[k].src = i /\ logLines[k].n = n

C18_NonEmptyLinesAppended ==
    \A i \in 1..MaxLiveWaiters : \A n \in 1..MaxLiveLines :
        Emitted(i, n, FALSE) ~> (quitting \/ logCancel # i \/ Appended(i, n))

\* C18 as stated: every line the stream emits, empty or not, is eventually
\* in logLines.
C18_EveryLineAppended ==
    \A i \in 1..MaxLiveWaiters : \A n \in 1..MaxLiveLines :
        \A empty \in BOOLEAN :
            Emitted(i, n, empty)
                ~> (quitting \/ logCancel # i \/ Appended(i, n))

\* The second line of a stream was appended while the unit file was shown in
\* the config view and the list pane was focused.
C18_Witness ==
    /\ viewMode = ModeConfig
    /\ activePane = PaneList
    /\ logCancel = 1
    /\ Appended(1, 2)
    /\ vpContent # JoinLines(logLines)

\* C19: once a subscription is cancelled or its source has ended, its
\* StreamLogs goroutine returns and no waitForLogLine stays blocked on its
\* channel (unless the program has quit).
Returned(i) == subs[i].pc \in {"ended", "failed"}

C19_BackgroundWorkCompletes ==
    \A i \in 1..MaxLiveWaiters :
        (i \in SubIds /\ (subs[i].cancelled \/ Returned(i)))
            ~> (quitting \/ (i \in SubIds /\ Returned(i) /\ waiters[i] = 0))

\* C20: for every terminal size, every width computed for a region (the list
\* size, the viewport width, the inner width of a list row, the header
\* spacer, the separator line) is at least zero, and a title or description
\* that does not fit is cut and ended by "..." only when more than 3 cells
\* are available, and is empty otherwise.
CutOrEmpty(str, shown, available) ==
    /\ Width(str) <= available => shown = str
    /\ (Width(str) > available /\ available > 3) =>
            shown = SubSeq(str, 1, available - 3) \o <<".", ".", ".">>
    /\ (Width(str) > available /\ available <= 3) => shown = << >>

C20_WidthsClamped ==
    /\ listWidth >= 0
    /\ viewportWidth >= 0
    /\ spacerWidth(width) >= 0
    /\ lineLen(width) >= 0
    /\ \A k \in 1..Len(listItems) :
        LET unit == listItems[k]
            isSelected == (k - 1 = listIndex)
        IN  /\ innerWidth(listWidth, isSelected) >= 0
            /\ gapSize(unit, listWidth, isSelected) >= 0
            /\ CutOrEmpty(Title(unit), titleStr(unit, listWidth, isSelected),
                          availableTitleWidth(unit, listWidth, isSelected))
            /\ CutOrEmpty(unit.Description,
                          descStr(unit, listWidth, isSelected),
                          innerWidth(listWidth, isSelected))

\* C21: viewMode only moves forward: once off the dashboard it never is
\* ModeDashboard again, and once ModeLogs or ModeConfig it stays one of the
\* two; Tab and Esc change activePane and nothing else of the model.
C21_ViewModeForward ==
    [][/\ viewMode # ModeDashboard => viewMode' # ModeDashboard
       /\ viewMode \in {ModeLogs, ModeConfig}
            => viewMode' \in {ModeLogs, ModeConfig}
       /\ (KeyTab \/ KeyEsc) =>
            UNCHANGED <<viewMode, devMode, listVars, logVars, textVars,
                        quitting, pending, layoutVars>>]_vars

\* The view went from logs to config, and Tab or Esc then focused the list
\* pane again.
C21_Witness ==
    /\ viewMode = ModeConfig
    /\ activePane = PaneList
    /\ streamingUnit # << >>
    /\ configAsked # << >>

\* C22: in every reachable state the viewport shows logLines when viewMode
\* is ModeLogs and configContent when it is ModeConfig.
C22_ViewerMatchesMode ==
    /\ viewMode = ModeLogs => vpContent = JoinLines(logLines)
    /\ viewMode = ModeConfig => vpContent = configContent

\* C23: once no fetchConfig is in flight, a unit file held in configContent
\* is the one of the unit asked for last.
C23_LatestConfigWins ==
    (/\ configAsked # << >>
     /\ \A cmd \in BagToSet(pending) : cmd.cmd # "fetchConfig"
     /\ configContent # << >>
     /\ configContent[1] = "unit file")
        => configContent[2] = configAsked

====
